---- MODULE Spec2Model ----
(***************************************************************************)
(* Portfolio API (src/main.py): a FastAPI application with a cookie        *)
(* session gate, public read routes and admin create/update/delete routes  *)
(* over three MongoDB collections.                                         *)
(*                                                                         *)
(* Text that the code converts (passwords, document ids) is a sequence of  *)
(* one-character strings; text that the code only stores and compares      *)
(* (titles, slugs) is a TLA+ string.                                       *)
(***************************************************************************)
EXTENDS Integers, Sequences, FiniteSets, TLC

VARIABLES
    ADMIN_PASSWORD,  \* the environment variable: {} when unset, {text} when set
    session,         \* session[c]: the dict held in client c's signed cookie
    db,              \* db[collection]: the set of documents of the collection
    nextId,          \* the next ObjectId the store generates
    resp,            \* the last request and the response it got
    inflight         \* update requests running in a worker thread

vars == <<ADMIN_PASSWORD, session, db, nextId, resp, inflight>>

(***************************************************************************)
(* Bounds of the model.                                                    *)
(***************************************************************************)
\* ObjectIds the store generates in one behaviour
MaxIds == 2
\* datetime.utcnow() returns a value of 0..MaxTime
MaxTime == 1
\* the limit query parameter ranges over -MaxLimit..MaxLimit
MaxLimit == 2
\* update requests in flight at once (SpecConc)
MaxInflight == 2

Times == 0..MaxTime
Limits == (-MaxLimit)..MaxLimit

\* Python's None
None == "None"

Min(a, b) == IF a <= b THEN a ELSE b
Abs(n) == IF n < 0 THEN -n ELSE n

(***************************************************************************)
(* Python dicts: functions from keys to values.                            *)
(***************************************************************************)
EmptyDict == [k \in {} |-> TRUE]

\* d[k] = v
DictSet(d, k, v) == [x \in DOMAIN d \cup {k} |-> IF x = k THEN v ELSE d[x]]

\* {**d, **e}: the keys of both, e's value where both have the key
DictMerge(d, e) == [x \in DOMAIN d \cup DOMAIN e |-> IF x \in DOMAIN e THEN e[x] ELSE d[x]]

(***************************************************************************)
(* Conversions between numbers and text.                                   *)
(***************************************************************************)
DigitChars == <<"0", "1", "2", "3", "4", "5", "6", "7", "8", "9",
                "a", "b", "c", "d", "e", "f">>
UpperHex == <<"A", "B", "C", "D", "E", "F">>

\* str(n) for a Python int
RECURSIVE NatStr(_)
NatStr(n) == IF n < 10 THEN <<DigitChars[n + 1]>>
             ELSE NatStr(n \div 10) \o <<DigitChars[(n % 10) + 1]>>

IntStr(n) == IF n < 0 THEN <<"-">> \o NatStr(-n) ELSE NatStr(n)

\* the last w hexadecimal digits of n, lower case
RECURSIVE HexStr(_, _)
HexStr(n, w) == IF w = 0 THEN <<>>
                ELSE HexStr(n \div 16, w - 1) \o <<DigitChars[(n % 16) + 1]>>

IsHexChar(c) == (\E i \in 1..16 : DigitChars[i] = c) \/ (\E i \in 1..6 : UpperHex[i] = c)

HexVal(c) == IF \E i \in 1..16 : DigitChars[i] = c
             THEN (CHOOSE i \in 1..16 : DigitChars[i] = c) - 1
             ELSE (CHOOSE i \in 1..6 : UpperHex[i] = c) + 9

RECURSIVE HexParse(_)
HexParse(t) == IF t = <<>> THEN 0
               ELSE 16 * HexParse(SubSeq(t, 1, Len(t) - 1)) + HexVal(t[Len(t)])

\* str(ObjectId): 24 lower-case hexadecimal digits
ObjectIdStr(oid) == HexStr(oid, 24)

\* ObjectId.is_valid(doc_id) for a str
ObjectIdIsValid(doc_id) == Len(doc_id) = 24 /\ \A i \in 1..24 : IsHexChar(doc_id[i])

\* ObjectId(doc_id)
ObjectId(doc_id) == HexParse(doc_id)

(***************************************************************************)
(* The session gate.                                                       *)
(***************************************************************************)
Clients == {"c1", "c2"}

DefaultAdminPassword == <<"a", "d", "m", "i", "n">>

\* os.getenv("ADMIN_PASSWORD", "admin")
Expected == IF ADMIN_PASSWORD = {} THEN DefaultAdminPassword
            ELSE CHOOSE t \in ADMIN_PASSWORD : TRUE

\* JSON values of the login payload's "password" key, and the key left out
PwStr(t) == [t |-> "str", s |-> t, n |-> 0]
PwInt(n) == [t |-> "int", s |-> <<>>, n |-> n]
PwAbsent == [t |-> "absent", s |-> <<>>, n |-> 0]

\* str(payload.get("password", ""))
PasswordOf(pw) == CASE pw.t = "str" -> pw.s
                    [] pw.t = "int" -> IntStr(pw.n)
                    [] OTHER -> <<>>

\* bool(request.session.get("admin"))
SessionAdmin(sess) == "admin" \in DOMAIN sess /\ sess["admin"] = TRUE

\* admin_required does not raise
AdminAllowed(c) == SessionAdmin(session[c])

(***************************************************************************)
(* Resources, request models and payloads.                                 *)
(***************************************************************************)
Resources == {"skills", "experiences", "blogs"}

COLLECTIONS == [skills |-> "skill", experiences |-> "experience", blogs |-> "blogpost"]

CollectionNames == {COLLECTIONS[r] : r \in Resources}

\* the fields of SkillIn, ExperienceIn and BlogPostIn
ModelFields(r) ==
    CASE r = "skills" -> {"title", "slug", "icon", "summary", "link", "tags", "order"}
      [] r = "experiences" -> {"company", "role", "startDate", "endDate", "summary", "image", "order"}
      [] r = "blogs" -> {"title", "slug", "excerpt", "content", "coverImage", "tags", "published"}

\* the fields declared without a default
RequiredFields(r) ==
    CASE r = "skills" -> {"title", "slug"}
      [] r = "experiences" -> {"company", "role", "startDate"}
      [] r = "blogs" -> {"title", "slug"}

\* the declared defaults
FieldDefaults(r) ==
    CASE r = "skills" -> [icon |-> None, summary |-> None, link |-> None, tags |-> <<>>, order |-> 0]
      [] r = "experiences" -> [endDate |-> None, summary |-> None, image |-> None, order |-> 0]
      [] r = "blogs" -> [excerpt |-> None, content |-> "", coverImage |-> None, tags |-> <<>>,
                         published |-> TRUE]

\* pydantic accepts the request body (a JSON object whose values have the declared types)
PayloadValid(r, payload) == RequiredFields(r) \subseteq DOMAIN payload

\* ModelDump with the fields the body left out excluded (model_dump(exclude_unset=True))
ModelDumpSentOnly(r, payload) == payload

\* model_dump(): every declared field, the default where the body left it out
ModelDump(r, payload) ==
    [f \in ModelFields(r) |-> IF f \in DOMAIN payload THEN payload[f] ELSE FieldDefaults(r)[f]]

\* Request bodies the clients send.
SkillFull == [title |-> "Go", slug |-> "go", icon |-> "gopher", summary |-> "fast",
              link |-> "go.dev", tags |-> <<"lang">>, order |-> 1]
SkillMin == [title |-> "Golang", slug |-> "go"]
SkillBad == [title |-> "Go"]
ExpFull == [company |-> "ACME", role |-> "dev", startDate |-> "2020-01-01",
            endDate |-> "2021-01-01", summary |-> "built", image |-> "acme.png", order |-> 1]
ExpMin == [company |-> "Initech", role |-> "qa", startDate |-> "2022-01-01"]
ExpBad == [company |-> "ACME"]
BlogPub == [title |-> "Hello", slug |-> "hello"]
BlogDraft == [title |-> "Draft", slug |-> "hello", excerpt |-> "soon", content |-> "text",
              coverImage |-> "c.png", tags |-> <<"news">>, published |-> FALSE]
BlogBad == [slug |-> "hello"]

FullPayload(r) == CASE r = "skills" -> SkillFull [] r = "experiences" -> ExpFull [] r = "blogs" -> BlogPub
MinPayload(r) == CASE r = "skills" -> SkillMin [] r = "experiences" -> ExpMin [] r = "blogs" -> BlogDraft
BadPayload(r) == CASE r = "skills" -> SkillBad [] r = "experiences" -> ExpBad [] r = "blogs" -> BlogBad

ValidPayloads(r) == {FullPayload(r), MinPayload(r)}

Slugs(r) == IF r = "skills" THEN {"go", "rust"} ELSE {"hello", "bye"}

NotAnId == <<"n", "o", "t", "-", "a", "n", "-", "i", "d">>

\* the ids the clients send: every id the store may generate, one it never generates, a malformed one
ZeroId == ObjectIdStr(0)
FirstId == ObjectIdStr(1)
DocIds == {ObjectIdStr(n) : n \in 0..MaxIds} \cup {NotAnId}

(***************************************************************************)
(* The document store (pymongo), as the handlers call it.                  *)
(***************************************************************************)
\* a document matches an equality filter
Matches(d, filter) == \A k \in DOMAIN filter : k \in DOMAIN d /\ d[k] = filter[k]

\* find(filter): the matching documents
Find(docs, filter) == {d \in docs : Matches(d, filter)}

\* a before b under sort(key, dir) is allowed; a document without the key sorts as null, first
KeyLeq(a, b, key) == \/ key \notin DOMAIN a
                     \/ key \in DOMAIN b /\ a[key] <= b[key]

InOrder(a, b, key, dir) == IF dir = 1 THEN KeyLeq(a, b, key) ELSE KeyLeq(b, a, key)

\* sort(key, dir): the orders the store may return the documents in (ties in any order)
Sorted(docs, key, dir) ==
    {s \in [1..Cardinality(docs) -> docs] :
        /\ \A i, j \in DOMAIN s : i # j => s[i] # s[j]
        /\ \A i, j \in DOMAIN s : i < j => InOrder(s[i], s[j], key, dir)}

\* Limit with the limit dropped
LimitIgnored(s, n) == s

\* limit(n): 0 is no limit, a negative limit counts as its absolute value
Limit(s, n) == IF n = 0 THEN s ELSE SubSeq(s, 1, Min(Abs(n), Len(s)))

\* find_one(filter): the documents it may return (it returns None when the set is empty)
FindOne(docs, filter) == Find(docs, filter)

\* SetFields as a replacement of the document (replace_one): only _id survives
SetFieldsReplace(d, fields) == DictMerge([_id |-> d["_id"]], fields)

\* SetFields as a merge in which the stored value wins ($setOnInsert-like)
SetFieldsKeep(d, fields) == DictMerge(fields, d)

\* update_one(filter, {"$set": fields}) on the document matched
SetFields(d, fields) == DictMerge(d, fields)

\* UpdateOne with upsert=True: a document is inserted when none matches
UpdateOneUpsert(docs, oid, fields) ==
    IF \E d \in docs : d["_id"] = oid
    THEN {IF d["_id"] = oid THEN DictMerge(d, fields) ELSE d : d \in docs}
    ELSE docs \cup {DictMerge([_id |-> oid], fields)}

\* update_one({"_id": oid}, {"$set": fields}): the collection afterwards
UpdateOne(docs, oid, fields) ==
    {IF d["_id"] = oid THEN SetFields(d, fields) ELSE d : d \in docs}

\* matched_count of that call
MatchedCount(docs, oid) == IF \E d \in docs : d["_id"] = oid THEN 1 ELSE 0

\* DeleteOne as delete_many({}): every document goes
DeleteAll(docs, oid) == {}

\* delete_one({"_id": oid}): the collection afterwards
DeleteOne(docs, oid) == {d \in docs : d["_id"] # oid}

\* deleted_count of that call
DeletedCount(docs, oid) == Cardinality(docs) - Cardinality(DeleteOne(docs, oid))

\* database.create_document(collection_name, data): the stored document
CreateDocument(collection_name, data, oid, now) ==
    IF collection_name = "blogpost"
    THEN DictMerge(data, [_id |-> oid, created_at |-> now])
    ELSE DictMerge(data, [_id |-> oid])

\* {"id": str(d.get("_id")), **{k: v for k, v in d.items() if k != "_id"}}
Public(d) ==
    [k \in {"id"} \cup (DOMAIN d \ {"_id"}) |->
        IF k \in DOMAIN d \ {"_id"} THEN d[k] ELSE ObjectIdStr(d["_id"])]

\* ListFilter without the published filter
ListFilterNone(r) == EmptyDict

\* per resource: the filter, sort key and direction of the public listing
ListFilter(r) == IF r = "blogs" THEN [published |-> TRUE] ELSE EmptyDict
SortKey(r) == IF r = "blogs" THEN "created_at" ELSE "order"
SortDir(r) == IF r = "blogs" THEN -1 ELSE 1

\* per resource: the filter of the single-document lookup
SlugFilter(r, slug) == IF r = "blogs" THEN [slug |-> slug, published |-> TRUE]
                       ELSE [slug |-> slug]

(***************************************************************************)
(* Requests and responses.                                                 *)
(***************************************************************************)
NoClient == "-"

NoRequest == [doc_id |-> <<>>, slug |-> "", limit |-> 0, payload |-> EmptyDict,
              password |-> PwAbsent]

NoBody == [ok |-> FALSE, admin |-> FALSE, id |-> <<>>, deleted |-> 0, docs |-> <<>>]

\* what resp records: the route and its arguments, the status code, the number of
\* store calls the handler made, and the JSON body of a 200 response
Reply(route, r, c, req, status, calls, body) ==
    [route |-> route, resource |-> r, client |-> c, req |-> req,
     status |-> status, calls |-> calls, body |-> body]

AdminRoutes == {"create", "update", "delete"}

(***************************************************************************)
(* Session routes.                                                         *)
(***************************************************************************)
\* admin_login that marks the session before it compares the password
admin_login_eager(c, pw) ==
    LET req == [NoRequest EXCEPT !.password = pw] IN
    /\ session' = [session EXCEPT ![c] = DictSet(@, "admin", TRUE)]
    /\ IF PasswordOf(pw) = Expected
       THEN resp' = Reply("login", "", c, req, 200, 0, [NoBody EXCEPT !.ok = TRUE])
       ELSE resp' = Reply("login", "", c, req, 401, 0, NoBody)
    /\ UNCHANGED <<ADMIN_PASSWORD, db, nextId, inflight>>

admin_login(c, pw) ==
    LET req == [NoRequest EXCEPT !.password = pw] IN
    /\ IF PasswordOf(pw) = Expected
       THEN /\ session' = [session EXCEPT ![c] = DictSet(@, "admin", TRUE)]
            /\ resp' = Reply("login", "", c, req, 200, 0, [NoBody EXCEPT !.ok = TRUE])
       ELSE /\ session' = session
            /\ resp' = Reply("login", "", c, req, 401, 0, NoBody)
    /\ UNCHANGED <<ADMIN_PASSWORD, db, nextId, inflight>>

\* admin_logout over a session dict shared by every client
admin_logout_shared(c) ==
    /\ session' = [x \in Clients |-> EmptyDict]
    /\ resp' = Reply("logout", "", c, NoRequest, 200, 0, [NoBody EXCEPT !.ok = TRUE])
    /\ UNCHANGED <<ADMIN_PASSWORD, db, nextId, inflight>>

admin_logout(c) ==
    /\ session' = [session EXCEPT ![c] = EmptyDict]
    /\ resp' = Reply("logout", "", c, NoRequest, 200, 0, [NoBody EXCEPT !.ok = TRUE])
    /\ UNCHANGED <<ADMIN_PASSWORD, db, nextId, inflight>>

admin_session(c) ==
    /\ resp' = Reply("session", "", c, NoRequest, 200, 0,
                     [NoBody EXCEPT !.admin = SessionAdmin(session[c])])
    /\ UNCHANGED <<ADMIN_PASSWORD, session, db, nextId, inflight>>

(***************************************************************************)
(* Liveness and diagnostics routes.  test_database reads the collection    *)
(* names (one store call) and catches every error; the texts it answers    *)
(* with are left out.                                                      *)
(***************************************************************************)
root ==
    /\ resp' = Reply("root", "", NoClient, NoRequest, 200, 0, NoBody)
    /\ UNCHANGED <<ADMIN_PASSWORD, session, db, nextId, inflight>>

test_database ==
    /\ resp' = Reply("test", "", NoClient, NoRequest, 200, 1, NoBody)
    /\ UNCHANGED <<ADMIN_PASSWORD, session, db, nextId, inflight>>

(***************************************************************************)
(* Public routes.                                                          *)
(***************************************************************************)
\* find(filter).sort(key, dir).limit(limit), each document shaped for the client
ListPublic(r, limit) ==
    \E s \in Sorted(Find(db[COLLECTIONS[r]], ListFilter(r)), SortKey(r), SortDir(r)) :
        LET docs == Limit(s, limit) IN
        /\ resp' = Reply("list", r, NoClient, [NoRequest EXCEPT !.limit = limit], 200, 1,
                         [NoBody EXCEPT !.docs = [i \in 1..Len(docs) |-> Public(docs[i])]])
        /\ UNCHANGED <<ADMIN_PASSWORD, session, db, nextId, inflight>>

\* find_one(filter); 404 when it returns None
GetPublic(r, slug) ==
    LET req == [NoRequest EXCEPT !.slug = slug]
        found == FindOne(db[COLLECTIONS[r]], SlugFilter(r, slug))
    IN
    /\ IF found = {}
       THEN resp' = Reply("get", r, NoClient, req, 404, 1, NoBody)
       ELSE \E d \in found :
                resp' = Reply("get", r, NoClient, req, 200, 1,
                              [NoBody EXCEPT !.docs = <<Public(d)>>])
    /\ UNCHANGED <<ADMIN_PASSWORD, session, db, nextId, inflight>>

(***************************************************************************)
(* Admin routes.  The admin_required dependency runs first, then the body  *)
(* is validated, then the handler runs.                                    *)
(***************************************************************************)
\* Rejected without the admin_required dependency
RejectedUngated(c, r, payload) == IF ~PayloadValid(r, payload) THEN 422 ELSE 0

\* the handler is not entered: the status of the error response, 0 when it is entered
Rejected(c, r, payload) ==
    IF ~AdminAllowed(c) THEN 401
    ELSE IF ~PayloadValid(r, payload) THEN 422
    ELSE 0

Create(c, r, payload, now) ==
    LET req == [NoRequest EXCEPT !.payload = payload]
        coll == COLLECTIONS[r]
    IN
    IF Rejected(c, r, payload) # 0
    THEN /\ resp' = Reply("create", r, c, req, Rejected(c, r, payload), 0, NoBody)
         /\ UNCHANGED <<ADMIN_PASSWORD, session, db, nextId, inflight>>
    ELSE /\ nextId <= MaxIds
         /\ db' = [db EXCEPT ![coll] = @ \cup {CreateDocument(coll, ModelDump(r, payload), nextId, now)}]
         /\ nextId' = nextId + 1
         /\ resp' = Reply("create", r, c, req, 200, 1, [NoBody EXCEPT !.id = ObjectIdStr(nextId)])
         /\ UNCHANGED <<ADMIN_PASSWORD, session, inflight>>

\* the $set document of an update: {**model_dump(), "updated_at": datetime.utcnow()}
UpdateFields(r, payload, now) == DictMerge(ModelDump(r, payload), [updated_at |-> now])

\* the status an update answers with after update_one matched n documents
UpdateStatus(n) == IF n = 0 THEN 404 ELSE 200

Update(c, r, doc_id, payload, now) ==
    LET req == [NoRequest EXCEPT !.doc_id = doc_id, !.payload = payload]
        coll == COLLECTIONS[r]
    IN
    IF Rejected(c, r, payload) # 0
    THEN /\ resp' = Reply("update", r, c, req, Rejected(c, r, payload), 0, NoBody)
         /\ UNCHANGED <<ADMIN_PASSWORD, session, db, nextId, inflight>>
    ELSE IF ~ObjectIdIsValid(doc_id)
    THEN /\ resp' = Reply("update", r, c, req, 400, 0, NoBody)
         /\ UNCHANGED <<ADMIN_PASSWORD, session, db, nextId, inflight>>
    ELSE /\ db' = [db EXCEPT ![coll] = UpdateOne(@, ObjectId(doc_id), UpdateFields(r, payload, now))]
         /\ resp' = Reply("update", r, c, req,
                          UpdateStatus(MatchedCount(db[coll], ObjectId(doc_id))), 1,
                          [NoBody EXCEPT !.ok = (MatchedCount(db[coll], ObjectId(doc_id)) # 0)])
         /\ UNCHANGED <<ADMIN_PASSWORD, session, nextId, inflight>>

Delete(c, r, doc_id) ==
    LET req == [NoRequest EXCEPT !.doc_id = doc_id]
        coll == COLLECTIONS[r]
    IN
    IF ~AdminAllowed(c)
    THEN /\ resp' = Reply("delete", r, c, req, 401, 0, NoBody)
         /\ UNCHANGED <<ADMIN_PASSWORD, session, db, nextId, inflight>>
    ELSE IF ~ObjectIdIsValid(doc_id)
    THEN /\ resp' = Reply("delete", r, c, req, 400, 0, NoBody)
         /\ UNCHANGED <<ADMIN_PASSWORD, session, db, nextId, inflight>>
    ELSE /\ db' = [db EXCEPT ![coll] = DeleteOne(@, ObjectId(doc_id))]
         /\ resp' = Reply("delete", r, c, req, 200, 1,
                          [NoBody EXCEPT !.deleted = DeletedCount(db[coll], ObjectId(doc_id))])
         /\ UNCHANGED <<ADMIN_PASSWORD, session, nextId, inflight>>

(***************************************************************************)
(* An update request in a worker thread: the handler evaluates its         *)
(* arguments (UpdateStart), then makes its one store call and answers      *)
(* (UpdateStore).  Other requests run in between.                          *)
(***************************************************************************)
UpdateStart(c, r, doc_id, payload, now) ==
    LET req == [NoRequest EXCEPT !.doc_id = doc_id, !.payload = payload] IN
    IF Rejected(c, r, payload) # 0
    THEN /\ resp' = Reply("update", r, c, req, Rejected(c, r, payload), 0, NoBody)
         /\ UNCHANGED <<ADMIN_PASSWORD, session, db, nextId, inflight>>
    ELSE IF ~ObjectIdIsValid(doc_id)
    THEN /\ resp' = Reply("update", r, c, req, 400, 0, NoBody)
         /\ UNCHANGED <<ADMIN_PASSWORD, session, db, nextId, inflight>>
    ELSE /\ Cardinality(inflight) < MaxInflight
         /\ inflight' = inflight \cup
                {[n |-> Cardinality(inflight) + 1, client |-> c, resource |-> r, req |-> req,
                  oid |-> ObjectId(doc_id), fields |-> UpdateFields(r, payload, now),
                  pc |-> "called", status |-> 0]}
         /\ UNCHANGED <<ADMIN_PASSWORD, session, db, nextId, resp>>

UpdateStore(q) ==
    LET coll == COLLECTIONS[q.resource]
        status == UpdateStatus(MatchedCount(db[coll], q.oid))
    IN
    /\ q.pc = "called"
    /\ db' = [db EXCEPT ![coll] = UpdateOne(@, q.oid, q.fields)]
    /\ inflight' = (inflight \ {q}) \cup {[q EXCEPT !.pc = "done", !.status = status]}
    /\ resp' = Reply("update", q.resource, q.client, q.req, status, 1,
                     [NoBody EXCEPT !.ok = (status = 200)])
    /\ UNCHANGED <<ADMIN_PASSWORD, session, nextId>>

(***************************************************************************)
(* The initial state and the requests the clients send.                    *)
(***************************************************************************)
\* the values the deployment may give ADMIN_PASSWORD: unset, or a text
Secrets == {{}, {<<"1", "2">>}}

CorrectPassword == PwStr(DefaultAdminPassword)

\* the "password" values the clients send
Passwords == {CorrectPassword, PwStr(<<"1", "2">>), PwStr(<<"x">>), PwInt(12), PwAbsent}

InitWith(secrets) ==
    /\ ADMIN_PASSWORD \in secrets
    /\ session = [c \in Clients |-> EmptyDict]
    /\ db = [n \in CollectionNames |-> {}]
    /\ nextId = 1
    /\ resp = Reply("", "", NoClient, NoRequest, 0, 0, NoBody)
    /\ inflight = {}

Init == InitWith({{}})

SessionNext(cs, pws) ==
    \/ \E c \in cs, pw \in pws : admin_login(c, pw)
    \/ \E c \in cs : admin_logout(c)
    \/ \E c \in cs : admin_session(c)

ListNext(rs, limits) == \E r \in rs, limit \in limits : ListPublic(r, limit)

\* there is no single-document route for experiences
GetNext(rs) == \E r \in rs \ {"experiences"} : \E slug \in Slugs(r) : GetPublic(r, slug)

CreateNext(cs, r, ps, times) == \E c \in cs, p \in ps, now \in times : Create(c, r, p, now)

UpdateNext(cs, r, ids, ps, times) ==
    \E c \in cs, id \in ids, p \in ps, now \in times : Update(c, r, id, p, now)

DeleteNext(cs, r, ids) == \E c \in cs, id \in ids : Delete(c, r, id)

(***************************************************************************)
(* Spec: every route of the API, one client.                               *)
(***************************************************************************)
Next ==
    \/ root
    \/ test_database
    \/ SessionNext({"c1"}, {CorrectPassword, PwStr(<<"x">>)})
    \/ ListNext(Resources, {1})
    \/ GetNext(Resources)
    \/ \E r \in Resources : CreateNext({"c1"}, r, {FullPayload(r), BadPayload(r)}, {0})
    \/ \E r \in Resources : UpdateNext({"c1"}, r, {FirstId, ZeroId, NotAnId},
                                       {FullPayload(r), BadPayload(r)}, {0})
    \/ \E r \in Resources : DeleteNext({"c1"}, r, {FirstId, ZeroId, NotAnId})

Spec == Init /\ [][Next]_vars

(***************************************************************************)
(* SpecAuth: two clients, any configured secret, the session routes and    *)
(* the nine admin routes.                                                  *)
(***************************************************************************)
NextAuth ==
    \/ SessionNext(Clients, Passwords)
    \/ \E r \in Resources : CreateNext(Clients, r, {FullPayload(r)}, {0})
    \/ \E r \in Resources : UpdateNext(Clients, r, {FirstId, NotAnId}, {FullPayload(r)}, {0})
    \/ \E r \in Resources : DeleteNext(Clients, r, {FirstId, NotAnId})

SpecAuth == InitWith(Secrets) /\ [][NextAuth]_vars

(***************************************************************************)
(* SpecRead: documents of the three resources are created and deleted, and *)
(* read through the public routes.                                         *)
(***************************************************************************)
NextRead ==
    \/ admin_login("c1", CorrectPassword)
    \/ \E r \in Resources : CreateNext({"c1"}, r, ValidPayloads(r), Times)
    \/ \E r \in Resources : DeleteNext({"c1"}, r, {FirstId})
    \/ ListNext(Resources, Limits)
    \/ GetNext(Resources)

SpecRead == Init /\ [][NextRead]_vars

(***************************************************************************)
(* SpecBlogs: the blog routes.                                             *)
(***************************************************************************)
NextBlogs ==
    \/ admin_login("c1", CorrectPassword)
    \/ CreateNext({"c1"}, "blogs", ValidPayloads("blogs"), Times)
    \/ UpdateNext({"c1"}, "blogs", DocIds, ValidPayloads("blogs"), {MaxTime})
    \/ DeleteNext({"c1"}, "blogs", {FirstId})
    \/ ListNext({"blogs"}, Limits)
    \/ GetNext({"blogs"})

SpecBlogs == Init /\ [][NextBlogs]_vars

(***************************************************************************)
(* SpecUpdate: documents of the three resources are created and updated.   *)
(***************************************************************************)
NextUpdate ==
    \/ admin_login("c1", CorrectPassword)
    \/ \E r \in Resources : CreateNext({"c1"}, r, {FullPayload(r)}, {0})
    \/ \E r \in Resources : UpdateNext({"c1"}, r, DocIds, ValidPayloads(r), {MaxTime})

SpecUpdate == Init /\ [][NextUpdate]_vars

(***************************************************************************)
(* SpecConc: update requests for skills run concurrently with each other   *)
(* and with creates and deletes.                                           *)
(***************************************************************************)
NextConc ==
    \/ admin_login("c1", CorrectPassword)
    \/ CreateNext({"c1"}, "skills", {FullPayload("skills")}, {0})
    \/ DeleteNext({"c1"}, "skills", {FirstId})
    \/ \E p \in ValidPayloads("skills"), now \in Times :
           UpdateStart("c1", "skills", FirstId, p, now)
    \/ \E q \in inflight : UpdateStore(q)

SpecConc == Init /\ [][NextConc]_vars

(***************************************************************************)
(* Properties.                                                             *)
(***************************************************************************)
\* the documents of resource r that the public listing matches
Listed(r) == Find(db[COLLECTIONS[r]], ListFilter(r))

\* the value a stored field has after payload was written
Sent(r, payload, f) == IF f \in DOMAIN payload THEN payload[f] ELSE FieldDefaults(r)[f]

\* the last request was an admin request of a client
AdminRequest == resp.route \in AdminRoutes

\* --- C1 ---
\* the answer of an admin route against the session of the client that called it
C1_GateState ==
    AdminRequest =>
        /\ resp.status = 401 <=> ~SessionAdmin(session[resp.client])
        /\ resp.status = 401 => resp.calls = 0
        /\ SessionAdmin(session[resp.client]) /\ resp.route = "create" => resp.status = 200
        /\ SessionAdmin(session[resp.client]) /\ resp.route = "delete"
               /\ ObjectIdIsValid(resp.req.doc_id) => resp.status = 200

\* what a step may do to the sessions
C1_SessionStep ==
    \A c \in Clients :
        /\ session'[c] # session[c] =>
               /\ resp'.client = c
               /\ \/ resp'.route = "login" /\ resp'.status = 200 /\ SessionAdmin(session'[c])
                  \/ resp'.route = "logout" /\ ~SessionAdmin(session'[c])
        /\ resp'.client = c /\ resp'.route = "login" /\ resp'.status = 200
               => SessionAdmin(session'[c])
        /\ resp'.client = c /\ resp'.route = "logout" => ~SessionAdmin(session'[c])
        /\ resp'.client = c /\ resp'.route \in AdminRoutes => session'[c] = session[c]

C2_Original ==
    resp.route = "login" /\ resp.req.password # PwStr(Expected) => resp.status = 401

\* the answers of login and check_session
C2_LoginState ==
    /\ resp.route = "login" =>
           /\ resp.status = 200 <=> PasswordOf(resp.req.password) = Expected
           /\ resp.status # 200 => resp.status = 401
           /\ resp.req.password = PwStr(Expected) => SessionAdmin(session[resp.client])
    /\ resp.route = "session" =>
           /\ resp.status = 200
           /\ resp.body.admin = SessionAdmin(session[resp.client])

\* what login and check_session leave alone
C2_LoginStep ==
    /\ resp'.route = "login" /\ resp'.status = 401 => session' = session
    /\ resp'.route = "session" => session' = session /\ db' = db
    /\ \A c \in Clients :
           SessionAdmin(session[c]) /\ ~SessionAdmin(session'[c])
               => resp'.route = "logout" /\ resp'.client = c

\* C2 amended: a login succeeds exactly when str() of the password sent (the text itself,
\* the decimal form of a number, "" without the key) is the configured secret; a failed
\* login answers 401 and leaves the session as it was; a successful one authorizes the
\* session, which stays authorized until that client logs out; check_session answers the
\* session's state and changes nothing.
C2_Login == [](C2_LoginState) /\ [][C2_LoginStep]_vars

\* C2 witness: a wrong password was refused in a session that is (still) authorized
C2_Witness ==
    /\ resp.route = "login"
    /\ resp.status = 401
    /\ SessionAdmin(session[resp.client])

\* --- C3 ---
\* the steps that change a collection
C3_ChangeStep ==
    db' # db =>
        /\ resp'.route \in AdminRoutes
        /\ resp'.status = 200
        /\ resp'.calls = 1
        /\ SessionAdmin(session[resp'.client])

\* the error responses decided before the store is called
C3_ErrorState == resp.status \in {400, 401, 422} => resp.calls = 0

\* C3: a collection changes only in a step of an admin create, update or delete that
\* answers 200 and whose client's session is authorized; every 401, 400 and 422 is
\* answered without a store call.
C3_OnlyAuthorizedWrites == [](C3_ErrorState) /\ [][C3_ChangeStep]_vars

\* C3 witness: an admin request is refused with 401 while the store holds documents
C3_Witness ==
    /\ AdminRequest
    /\ resp.status = 401
    /\ \E n \in CollectionNames : db[n] # {}

\* --- C4 ---
\* the store call of an update whose id no document has
C4_Step ==
    \A q \in inflight :
        /\ q.pc = "called"
        /\ q \notin inflight'
        /\ ~\E d \in db[COLLECTIONS[q.resource]] : d["_id"] = q.oid
        => /\ resp'.route = "update"
           /\ resp'.status = 404
           /\ [q EXCEPT !.pc = "done", !.status = 404] \in inflight'
           /\ db' = db

\* C4: when an update request makes its store call with a well-formed id that no document
\* of the collection has, it answers 404 and the collection (and every other) is unchanged.
C4_UpdateMissing == [][C4_Step]_vars

\* C4 witness: an update was answered 404 for the id of a document that was created and
\* has been deleted
C4_Witness ==
    /\ resp.route = "update"
    /\ resp.status = 404
    /\ resp.req.doc_id = FirstId
    /\ nextId > 1
    /\ ~\E d \in db["skill"] : d["_id"] = 1

\* --- C5 ---
\* the step of an authorized delete with a well-formed id
C5_Step ==
    resp'.route = "delete" /\ SessionAdmin(session[resp'.client])
        /\ ObjectIdIsValid(resp'.req.doc_id)
    => LET coll == COLLECTIONS[resp'.resource]
           oid == ObjectId(resp'.req.doc_id)
           hit == {d \in db[coll] : d["_id"] = oid}
       IN /\ resp'.status = 200
          /\ resp'.body.deleted = (IF hit = {} THEN 0 ELSE 1)
          /\ Cardinality(hit) <= 1
          /\ db'[coll] = db[coll] \ hit
          /\ \A n \in CollectionNames \ {coll} : db'[n] = db[n]
          /\ resp'.body.deleted = 0 => db' = db

\* after a delete no document has the id
C5_State ==
    resp.route = "delete" /\ resp.status = 200 =>
        ~\E d \in db[COLLECTIONS[resp.resource]] : d["_id"] = ObjectId(resp.req.doc_id)

\* C5: a delete from an authorized session with a well-formed id answers 200 with
\* deleted = 1 when a document of the collection has that id and 0 otherwise; it removes
\* that document and no other; afterwards no document has the id, so a second delete
\* answers 0.
C5_Delete == [](C5_State) /\ [][C5_Step]_vars

\* C5 witness: a delete removed a document and another document of the collection remains
C5_Witness ==
    /\ resp.route = "delete"
    /\ resp.status = 200
    /\ resp.body.deleted = 1
    /\ db[COLLECTIONS[resp.resource]] # {}

\* --- C6 ---
\* C6: every record the blog listing returns, and the record the blog lookup returns, is
\* a document of the collection with published = true (and, for the lookup, the slug asked
\* for); the lookup answers 404 exactly when no published document has the slug.
C6_PublishedOnly ==
    resp.resource = "blogs" /\ resp.route \in {"list", "get"} =>
        /\ resp.route = "list" => resp.status = 200
        /\ \A i \in 1..Len(resp.body.docs) :
               /\ "published" \in DOMAIN resp.body.docs[i]
               /\ resp.body.docs[i]["published"] = TRUE
               /\ \E d \in db["blogpost"] : Public(d) = resp.body.docs[i]
               /\ resp.route = "get" => resp.body.docs[i]["slug"] = resp.req.slug
        /\ resp.route = "get" =>
               /\ resp.status \in {200, 404}
               /\ resp.status = 200 <=> Len(resp.body.docs) = 1
               /\ resp.status = 404 <=>
                      ~\E d \in db["blogpost"] :
                          d["slug"] = resp.req.slug /\ d["published"] = TRUE

\* C6 witness: the lookup of a slug answers 404 while the collection holds a document
\* with that slug that an update left unpublished
C6_Witness ==
    /\ resp.resource = "blogs"
    /\ resp.route = "get"
    /\ resp.status = 404
    /\ \E d \in db["blogpost"] :
           /\ d["slug"] = resp.req.slug
           /\ d["published"] = FALSE
           /\ "updated_at" \in DOMAIN d

\* --- C7 ---
\* the record a lookup returns for a document created from payload with the id create answered
IsCreated(r, rec, payload, id) ==
    /\ DOMAIN rec = ModelFields(r) \cup {"id"} \cup (IF r = "blogs" THEN {"created_at"} ELSE {})
    /\ rec["id"] = id
    /\ \A f \in ModelFields(r) : rec[f] = Sent(r, payload, f)

\* a create that succeeded is followed at once by the lookup of the slug it sent
CreateThenGet ==
    /\ resp.route = "create"
    /\ resp.status = 200
    /\ resp'.route = "get"
    /\ resp'.resource = resp.resource
    /\ resp'.req.slug = resp.req.payload["slug"]

\* the lookup after a create returns the created record
C7_OriginalStep ==
    CreateThenGet =>
        /\ resp'.status = 200
        /\ Len(resp'.body.docs) = 1
        /\ IsCreated(resp.resource, resp'.body.docs[1], resp.req.payload, resp.body.id)

\* C7 as stated: the lookup after a create returns the created record, in every state of
\* the store and for every valid payload
C7_Original == [][C7_OriginalStep]_vars

\* the lookup after a create whose document is the only one the filter matches
C7_Step ==
    /\ CreateThenGet
    /\ Cardinality(Find(db[COLLECTIONS[resp.resource]],
                        SlugFilter(resp.resource, resp'.req.slug))) = 1
    /\ resp.resource = "blogs" => Sent("blogs", resp.req.payload, "published") = TRUE
    => /\ resp'.status = 200
       /\ Len(resp'.body.docs) = 1
       /\ IsCreated(resp.resource, resp'.body.docs[1], resp.req.payload, resp.body.id)

\* C7 amended: the lookup after a create of a skill or a blog post returns the created
\* record when the created document is the only one the lookup's filter matches (no other
\* document has the slug and, for a blog post, published is true)
C7_CreateThenGet == [][C7_Step]_vars

\* C7 witness: the lookup returned the document created last, whose payload left out the
\* optional fields
C7_Witness ==
    /\ resp.route = "get"
    /\ resp.status = 200
    /\ nextId > 1
    /\ resp.body.docs[1]["id"] = ObjectIdStr(nextId - 1)
    /\ resp.body.docs[1]["tags"] = <<>>

\* --- C8 ---
\* the records of a listing are documents matched by the filter, none twice, in the order
\* of the sort key, no document left out sorts before one returned, and each has a 24
\* character "id" and no "_id"
ListingOrdered(r, recs) ==
    /\ \A i \in 1..Len(recs) :
           /\ "_id" \notin DOMAIN recs[i]
           /\ "id" \in DOMAIN recs[i]
           /\ Len(recs[i]["id"]) = 24
           /\ \E d \in Listed(r) : Public(d) = recs[i]
    /\ \A i, j \in 1..Len(recs) : i # j => recs[i]["id"] # recs[j]["id"]
    /\ \A i, j \in 1..Len(recs) :
           i < j => IF r = "blogs" THEN recs[i]["created_at"] >= recs[j]["created_at"]
                    ELSE recs[i]["order"] <= recs[j]["order"]
    /\ \A d \in Listed(r) :
           (\A i \in 1..Len(recs) : recs[i] # Public(d)) =>
               \A i \in 1..Len(recs) :
                   IF r = "blogs" THEN recs[i]["created_at"] >= d["created_at"]
                   ELSE recs[i]["order"] <= d["order"]

\* C8 as stated, for the limits that are not negative: the listing has
\* min(limit, matching documents) records
C8_Original ==
    resp.route = "list" /\ resp.req.limit >= 0 =>
        /\ resp.status = 200
        /\ ListingOrdered(resp.resource, resp.body.docs)
        /\ Len(resp.body.docs) = Min(resp.req.limit, Cardinality(Listed(resp.resource)))

\* C8 amended: the listing is ordered and without repetition for every limit; it has
\* min(limit, matching documents) records for a limit of 1 or more, all matching documents
\* for a limit of 0, and min(-limit, matching documents) for a negative limit
C8_Listing ==
    resp.route = "list" =>
        /\ resp.status = 200
        /\ ListingOrdered(resp.resource, resp.body.docs)
        /\ resp.req.limit >= 1 =>
               Len(resp.body.docs) = Min(resp.req.limit, Cardinality(Listed(resp.resource)))
        /\ resp.req.limit = 0 => Len(resp.body.docs) = Cardinality(Listed(resp.resource))
        /\ resp.req.limit < 0 =>
               Len(resp.body.docs) = Min(-resp.req.limit, Cardinality(Listed(resp.resource)))

\* C8 witness: a listing with limit 1 returned one of two matching documents
C8_Witness ==
    /\ resp.route = "list"
    /\ resp.req.limit = 1
    /\ Len(resp.body.docs) = 1
    /\ Cardinality(Listed(resp.resource)) = 2

\* --- C9 ---
\* the step of an update that answers 200
C9_Step ==
    resp'.route = "update" /\ resp'.status = 200 /\ <<db, resp>> # <<db', resp'>> =>
        LET r == resp'.resource
            coll == COLLECTIONS[r]
            oid == ObjectId(resp'.req.doc_id)
        IN /\ \E d \in db[coll], e \in db'[coll] :
                  /\ d["_id"] = oid
                  /\ e["_id"] = oid
                  /\ \A f \in ModelFields(r) :
                         f \in DOMAIN e /\ e[f] = Sent(r, resp'.req.payload, f)
                  /\ "updated_at" \in DOMAIN e
                  /\ DOMAIN e = DOMAIN d \cup {"updated_at"}
                  /\ "created_at" \in DOMAIN d => e["created_at"] = d["created_at"]
                  /\ db'[coll] \ {e} = db[coll] \ {d}
           /\ Cardinality(db'[coll]) = Cardinality(db[coll])
           /\ \A n \in CollectionNames \ {coll} : db'[n] = db[n]

\* C9: an update that answers 200 changes the document with the id and no other: its
\* schema fields are the payload's (the default where the payload left one out), it has an
\* updated_at, its _id and created_at are as before; the other documents of the
\* collection, the other collections and the number of documents are as before.
C9_UpdateFrame == [][C9_Step]_vars

\* C9 witness: an update that left out the optional fields succeeded on a document that
\* had them, in a collection with another document
C9_Witness ==
    /\ resp.route = "update"
    /\ resp.status = 200
    /\ resp.req.payload = MinPayload(resp.resource)
    /\ Cardinality(db[COLLECTIONS[resp.resource]]) = 2

\* --- C10 ---
\* the update requests that have made their store call on document d with success
Applied(d) == {q \in inflight : q.pc = "done" /\ q.status = 200 /\ q.oid = d["_id"]}

\* a document that updates were applied to has every field of one of them
C10_State ==
    \A d \in db["skill"] :
        Applied(d) # {} =>
            \E q \in Applied(d) : \A f \in DOMAIN q.fields : f \in DOMAIN d /\ d[f] = q.fields[f]

\* the store call of an update whose document exists
C10_Step ==
    \A q \in inflight :
        /\ q.pc = "called"
        /\ q \notin inflight'
        /\ \E d \in db[COLLECTIONS[q.resource]] : d["_id"] = q.oid
        => /\ [q EXCEPT !.pc = "done", !.status = 200] \in inflight'
           /\ resp'.status = 200

\* C10: a document that concurrent updates were applied to has every field of the $set
\* document of one of them (never fields of two payloads); an update that makes its store
\* call while the document exists answers 200, whatever other updates did before.
C10_LastWriteWins == [](C10_State) /\ [][C10_Step]_vars

\* C10 witness: two updates with different payloads were both applied to a document, and
\* the one that started first made its store call last (the document has its fields)
C10_Witness ==
    \E d \in db["skill"] :
        \E q1, q2 \in Applied(d) :
            /\ q1.n < q2.n
            /\ q1.req.payload # q2.req.payload
            /\ \A f \in DOMAIN q1.fields : d[f] = q1.fields[f]

====
